---- MODULE Spec2Model ----
(***************************************************************************)
(* Companies directory: the backend's in-memory cache in front of the SEC  *)
(* source (src/backend/server.js) and the frontend's filter / sort /       *)
(* paginate view model (src/frontend/src/App.js).                          *)
(*                                                                         *)
(* Strings are held as strings; toLowerCase, includes, the relational      *)
(* operators and parseInt work on their UTF-16 code units (Units), so that *)
(* they are computed and not assumed.                                      *)
(***************************************************************************)
EXTENDS Integers, Sequences, FiniteSets, TLC

VARIABLES
  \* backend (server.js)
  cachedCompanies,   \* server.js:12
  lastFetchTime,     \* server.js:13
  now,               \* Date.now()
  req,               \* the requests being served, one record per connection
  \* frontend (App.js)
  companies, loading, error, searchTerm, locationFilter, industryFilter,
  sortBy, sortOrder, currentPage, viewMode, refreshing,
  fetching           \* the request the page awaits: "get", "post" or "none"

serverVars == <<cachedCompanies, lastFetchTime, now, req>>

viewVars ==
  <<companies, loading, error, searchTerm, locationFilter, industryFilter,
    sortBy, sortOrder, currentPage, viewMode, refreshing, fetching>>

vars == <<serverVars, viewVars>>

-----------------------------------------------------------------------------
(* Bounds of the model *)

\* number of clock steps the model lets pass
MaxTicks == 2

\* milliseconds per clock step: half the freshness window
TickStep == 1800000

\* Date.now() when the process starts
StartTime == 1000

\* Math.random() sequences a fetch may see are numbered 0..MaxDraw
MaxDraw == 0

(* Program constants *)

CACHE_DURATION == 3600000

itemsPerPage == 6

SecSliceEnd == 20

-----------------------------------------------------------------------------
(* JavaScript values *)

\* null / undefined
None == [some |-> FALSE]

Some(v) == [some |-> TRUE, val |-> v]

\* a call that returned v, and a call that threw
Returned(v) == [threw |-> FALSE, val |-> v]

Thrown == [threw |-> TRUE]

Min(a, b) == IF a < b THEN a ELSE b

Max(a, b) == IF a > b THEN a ELSE b

\* the UTF-16 code units of the strings the model handles
Units(s) ==
  CASE s = "Apple Inc." -> <<65,112,112,108,101,32,73,110,99,46>>
    [] s = "Cupertino, CA" -> <<67,117,112,101,114,116,105,110,111,44,32,67,65>>
    [] s = "Technology" -> <<84,101,99,104,110,111,108,111,103,121>>
    [] s = "AAPL" -> <<65,65,80,76>>
    [] s = "Microsoft Corporation" -> <<77,105,99,114,111,115,111,102,116,32,67,111,114,112,111,114,97,116,105,111,110>>
    [] s = "Redmond, WA" -> <<82,101,100,109,111,110,100,44,32,87,65>>
    [] s = "MSFT" -> <<77,83,70,84>>
    [] s = "Amazon.com Inc." -> <<65,109,97,122,111,110,46,99,111,109,32,73,110,99,46>>
    [] s = "Seattle, WA" -> <<83,101,97,116,116,108,101,44,32,87,65>>
    [] s = "Retail" -> <<82,101,116,97,105,108>>
    [] s = "AMZN" -> <<65,77,90,78>>
    [] s = "Tesla Inc." -> <<84,101,115,108,97,32,73,110,99,46>>
    [] s = "Austin, TX" -> <<65,117,115,116,105,110,44,32,84,88>>
    [] s = "Energy" -> <<69,110,101,114,103,121>>
    [] s = "TSLA" -> <<84,83,76,65>>
    [] s = "Meta Platforms Inc." -> <<77,101,116,97,32,80,108,97,116,102,111,114,109,115,32,73,110,99,46>>
    [] s = "Menlo Park, CA" -> <<77,101,110,108,111,32,80,97,114,107,44,32,67,65>>
    [] s = "META" -> <<77,69,84,65>>
    [] s = "Alphabet Inc." -> <<65,108,112,104,97,98,101,116,32,73,110,99,46>>
    [] s = "Mountain View, CA" -> <<77,111,117,110,116,97,105,110,32,86,105,101,119,44,32,67,65>>
    [] s = "GOOGL" -> <<71,79,79,71,76>>
    [] s = "JPMorgan Chase & Co." -> <<74,80,77,111,114,103,97,110,32,67,104,97,115,101,32,38,32,67,111,46>>
    [] s = "New York, NY" -> <<78,101,119,32,89,111,114,107,44,32,78,89>>
    [] s = "Finance" -> <<70,105,110,97,110,99,101>>
    [] s = "JPM" -> <<74,80,77>>
    [] s = "Johnson & Johnson" -> <<74,111,104,110,115,111,110,32,38,32,74,111,104,110,115,111,110>>
    [] s = "New Brunswick, NJ" -> <<78,101,119,32,66,114,117,110,115,119,105,99,107,44,32,78,74>>
    [] s = "Healthcare" -> <<72,101,97,108,116,104,99,97,114,101>>
    [] s = "JNJ" -> <<74,78,74>>
    [] s = "Visa Inc." -> <<86,105,115,97,32,73,110,99,46>>
    [] s = "San Francisco, CA" -> <<83,97,110,32,70,114,97,110,99,105,115,99,111,44,32,67,65>>
    [] s = "V" -> <<86>>
    [] s = "Walmart Inc." -> <<87,97,108,109,97,114,116,32,73,110,99,46>>
    [] s = "Bentonville, AR" -> <<66,101,110,116,111,110,118,105,108,108,101,44,32,65,82>>
    [] s = "WMT" -> <<87,77,84>>
    [] s = "Procter & Gamble" -> <<80,114,111,99,116,101,114,32,38,32,71,97,109,98,108,101>>
    [] s = "Cincinnati, OH" -> <<67,105,110,99,105,110,110,97,116,105,44,32,79,72>>
    [] s = "PG" -> <<80,71>>
    [] s = "UnitedHealth Group" -> <<85,110,105,116,101,100,72,101,97,108,116,104,32,71,114,111,117,112>>
    [] s = "Minnetonka, MN" -> <<77,105,110,110,101,116,111,110,107,97,44,32,77,78>>
    [] s = "UNH" -> <<85,78,72>>
    [] s = "NVIDIA Corporation" -> <<78,86,73,68,73,65,32,67,111,114,112,111,114,97,116,105,111,110>>
    [] s = "Santa Clara, CA" -> <<83,97,110,116,97,32,67,108,97,114,97,44,32,67,65>>
    [] s = "NVDA" -> <<78,86,68,65>>
    [] s = "Exxon Mobil" -> <<69,120,120,111,110,32,77,111,98,105,108>>
    [] s = "Irving, TX" -> <<73,114,118,105,110,103,44,32,84,88>>
    [] s = "XOM" -> <<88,79,77>>
    [] s = "Pfizer Inc." -> <<80,102,105,122,101,114,32,73,110,99,46>>
    [] s = "PFE" -> <<80,70,69>>
    [] s = "Coca-Cola Company" -> <<67,111,99,97,45,67,111,108,97,32,67,111,109,112,97,110,121>>
    [] s = "Atlanta, GA" -> <<65,116,108,97,110,116,97,44,32,71,65>>
    [] s = "KO" -> <<75,79>>
    [] s = "Intel Corporation" -> <<73,110,116,101,108,32,67,111,114,112,111,114,97,116,105,111,110>>
    [] s = "INTC" -> <<73,78,84,67>>
    [] s = "Chevron Corporation" -> <<67,104,101,118,114,111,110,32,67,111,114,112,111,114,97,116,105,111,110>>
    [] s = "San Ramon, CA" -> <<83,97,110,32,82,97,109,111,110,44,32,67,65>>
    [] s = "CVX" -> <<67,86,88>>
    [] s = "Mastercard Inc." -> <<77,97,115,116,101,114,99,97,114,100,32,73,110,99,46>>
    [] s = "Purchase, NY" -> <<80,117,114,99,104,97,115,101,44,32,78,89>>
    [] s = "MA" -> <<77,65>>
    [] s = "Netflix Inc." -> <<78,101,116,102,108,105,120,32,73,110,99,46>>
    [] s = "Los Gatos, CA" -> <<76,111,115,32,71,97,116,111,115,44,32,67,65>>
    [] s = "NFLX" -> <<78,70,76,88>>
    [] s = "beta corp" -> <<98,101,116,97,32,99,111,114,112>>
    [] s = "BC" -> <<66,67>>
    [] s = "Alpha Inc" -> <<65,108,112,104,97,32,73,110,99>>
    [] s = "AI" -> <<65,73>>
    [] s = "alpha inc" -> <<97,108,112,104,97,32,105,110,99>>
    [] s = "AL" -> <<65,76>>
    [] s = "Zeta" -> <<90,101,116,97>>
    [] s = "Z" -> <<90>>
    [] s = "eta" -> <<101,116,97>>
    [] s = "E" -> <<69>>
    [] s = "Eta" -> <<69,116,97>>
    [] s = "EE" -> <<69,69>>
    [] s = "Acme" -> <<65,99,109,101>>
    [] s = "A" -> <<65>>
    [] s = "delta" -> <<100,101,108,116,97>>
    [] s = "D" -> <<68>>
    [] s = "Beta" -> <<66,101,116,97>>
    [] s = "B" -> <<66>>
    [] s = "acme co" -> <<97,99,109,101,32,99,111>>
    [] s = "AC" -> <<65,67>>
    [] s = "Co U" -> <<67,111,32,85>>
    [] s = "CU" -> <<67,85>>
    [] s = "Co T" -> <<67,111,32,84>>
    [] s = "CT" -> <<67,84>>
    [] s = "Co S" -> <<67,111,32,83>>
    [] s = "CS" -> <<67,83>>
    [] s = "Co R" -> <<67,111,32,82>>
    [] s = "CR" -> <<67,82>>
    [] s = "Co Q" -> <<67,111,32,81>>
    [] s = "CQ" -> <<67,81>>
    [] s = "Co P" -> <<67,111,32,80>>
    [] s = "CP" -> <<67,80>>
    [] s = "Co O" -> <<67,111,32,79>>
    [] s = "CO" -> <<67,79>>
    [] s = "Co N" -> <<67,111,32,78>>
    [] s = "CN" -> <<67,78>>
    [] s = "Co M" -> <<67,111,32,77>>
    [] s = "CM" -> <<67,77>>
    [] s = "Co L" -> <<67,111,32,76>>
    [] s = "CL" -> <<67,76>>
    [] s = "Co K" -> <<67,111,32,75>>
    [] s = "CK" -> <<67,75>>
    [] s = "Co J" -> <<67,111,32,74>>
    [] s = "CJ" -> <<67,74>>
    [] s = "Co I" -> <<67,111,32,73>>
    [] s = "CI" -> <<67,73>>
    [] s = "Co H" -> <<67,111,32,72>>
    [] s = "CH" -> <<67,72>>
    [] s = "Co G" -> <<67,111,32,71>>
    [] s = "CG" -> <<67,71>>
    [] s = "Co F" -> <<67,111,32,70>>
    [] s = "CF" -> <<67,70>>
    [] s = "Co E" -> <<67,111,32,69>>
    [] s = "CE" -> <<67,69>>
    [] s = "Co D" -> <<67,111,32,68>>
    [] s = "CD" -> <<67,68>>
    [] s = "Co C" -> <<67,111,32,67>>
    [] s = "CC" -> <<67,67>>
    [] s = "Co B" -> <<67,111,32,66>>
    [] s = "CB" -> <<67,66>>
    [] s = "Co A" -> <<67,111,32,65>>
    [] s = "CA" -> <<67,65>>
    [] s = "United States" -> <<85,110,105,116,101,100,32,83,116,97,116,101,115>>
    [] s = "" -> <<>>
    [] s = "ny" -> <<110,121>>
    [] s = "INC" -> <<73,78,67>>
    [] s = "zz" -> <<122,122>>
    [] s = "20" -> <<50,48>>
    [] s = "21" -> <<50,49>>
    [] s = "2x" -> <<50,120>>
    [] s = "abc" -> <<97,98,99>>

\* String.prototype.toLowerCase on the code units A-Z
toLowerCase(s) ==
  [i \in 1..Len(s) |-> IF s[i] \in 65..90 THEN s[i] + 32 ELSE s[i]]

\* String.prototype.includes
includes(s, t) ==
  \E i \in 0..(Len(s) - Len(t)) : SubSeq(s, i + 1, i + Len(t)) = t

\* a < b on strings: code unit by code unit, a proper prefix is smaller
RECURSIVE StrLess(_, _)
StrLess(a, b) ==
  IF b = <<>> THEN FALSE
  ELSE IF a = <<>> THEN TRUE
  ELSE IF Head(a) # Head(b) THEN Head(a) < Head(b)
  ELSE StrLess(Tail(a), Tail(b))

\* the value of a digit of the given radix, -1 when c is none
DigitValue(c, radix) ==
  LET v == IF c \in 48..57 THEN c - 48
           ELSE IF c \in 97..122 THEN c - 97 + 10
           ELSE IF c \in 65..90 THEN c - 65 + 10
           ELSE -1
  IN IF v < radix THEN v ELSE -1

RECURSIVE StripLeadingSpace(_)
StripLeadingSpace(s) ==
  IF s # <<>> /\ Head(s) \in {9, 10, 11, 12, 13, 32}
  THEN StripLeadingSpace(Tail(s))
  ELSE s

\* the longest prefix of digits of s, as [nan, val]
RECURSIVE ParseDigits(_, _, _)
ParseDigits(s, radix, acc) ==
  IF s = <<>> \/ DigitValue(Head(s), radix) < 0
  THEN acc
  ELSE ParseDigits(Tail(s), radix,
                   [nan |-> FALSE, val |-> acc.val * radix + DigitValue(Head(s), radix)])

\* parseInt(string) with no radix: white space, sign, 0x prefix, digits
parseInt(string) ==
  LET s0 == StripLeadingSpace(Units(string))
      neg == s0 # <<>> /\ Head(s0) = 45
      s1 == IF s0 # <<>> /\ Head(s0) \in {43, 45} THEN Tail(s0) ELSE s0
      hex == Len(s1) >= 2 /\ s1[1] = 48 /\ s1[2] \in {88, 120}
      s2 == IF hex THEN SubSeq(s1, 3, Len(s1)) ELSE s1
      p == ParseDigits(s2, IF hex THEN 16 ELSE 10, [nan |-> TRUE, val |-> 0])
  IN IF p.nan THEN p ELSE [nan |-> FALSE, val |-> IF neg THEN 0 - p.val ELSE p.val]

-----------------------------------------------------------------------------
(* Backend data: server.js *)

getRealCompanies ==
  <<
    [id |-> 1, name |-> "Apple Inc.", location |-> "Cupertino, CA",
     industry |-> "Technology", employees |-> 164000, founded |-> 1976,
     ticker |-> "AAPL"],
    [id |-> 2, name |-> "Microsoft Corporation", location |-> "Redmond, WA",
     industry |-> "Technology", employees |-> 221000, founded |-> 1975,
     ticker |-> "MSFT"],
    [id |-> 3, name |-> "Amazon.com Inc.", location |-> "Seattle, WA",
     industry |-> "Retail", employees |-> 1541000, founded |-> 1994,
     ticker |-> "AMZN"],
    [id |-> 4, name |-> "Tesla Inc.", location |-> "Austin, TX",
     industry |-> "Energy", employees |-> 127855, founded |-> 2003,
     ticker |-> "TSLA"],
    [id |-> 5, name |-> "Meta Platforms Inc.", location |-> "Menlo Park, CA",
     industry |-> "Technology", employees |-> 86482, founded |-> 2004,
     ticker |-> "META"],
    [id |-> 6, name |-> "Alphabet Inc.", location |-> "Mountain View, CA",
     industry |-> "Technology", employees |-> 190234, founded |-> 1998,
     ticker |-> "GOOGL"],
    [id |-> 7, name |-> "JPMorgan Chase & Co.", location |-> "New York, NY",
     industry |-> "Finance", employees |-> 293723, founded |-> 1799,
     ticker |-> "JPM"],
    [id |-> 8, name |-> "Johnson & Johnson", location |-> "New Brunswick, NJ",
     industry |-> "Healthcare", employees |-> 152700, founded |-> 1886,
     ticker |-> "JNJ"],
    [id |-> 9, name |-> "Visa Inc.", location |-> "San Francisco, CA",
     industry |-> "Finance", employees |-> 26500, founded |-> 1958,
     ticker |-> "V"],
    [id |-> 10, name |-> "Walmart Inc.", location |-> "Bentonville, AR",
     industry |-> "Retail", employees |-> 2100000, founded |-> 1962,
     ticker |-> "WMT"],
    [id |-> 11, name |-> "Procter & Gamble", location |-> "Cincinnati, OH",
     industry |-> "Retail", employees |-> 107000, founded |-> 1837,
     ticker |-> "PG"],
    [id |-> 12, name |-> "UnitedHealth Group", location |-> "Minnetonka, MN",
     industry |-> "Healthcare", employees |-> 440000, founded |-> 1977,
     ticker |-> "UNH"],
    [id |-> 13, name |-> "NVIDIA Corporation", location |-> "Santa Clara, CA",
     industry |-> "Technology", employees |-> 29600, founded |-> 1993,
     ticker |-> "NVDA"],
    [id |-> 14, name |-> "Exxon Mobil", location |-> "Irving, TX",
     industry |-> "Energy", employees |-> 62000, founded |-> 1999,
     ticker |-> "XOM"],
    [id |-> 15, name |-> "Pfizer Inc.", location |-> "New York, NY",
     industry |-> "Healthcare", employees |-> 83000, founded |-> 1849,
     ticker |-> "PFE"],
    [id |-> 16, name |-> "Coca-Cola Company", location |-> "Atlanta, GA",
     industry |-> "Retail", employees |-> 82500, founded |-> 1892,
     ticker |-> "KO"],
    [id |-> 17, name |-> "Intel Corporation", location |-> "Santa Clara, CA",
     industry |-> "Technology", employees |-> 124800, founded |-> 1968,
     ticker |-> "INTC"],
    [id |-> 18, name |-> "Chevron Corporation", location |-> "San Ramon, CA",
     industry |-> "Energy", employees |-> 43846, founded |-> 1879,
     ticker |-> "CVX"],
    [id |-> 19, name |-> "Mastercard Inc.", location |-> "Purchase, NY",
     industry |-> "Finance", employees |-> 33000, founded |-> 1966,
     ticker |-> "MA"],
    [id |-> 20, name |-> "Netflix Inc.", location |-> "Los Gatos, CA",
     industry |-> "Technology", employees |-> 12800, founded |-> 1997,
     ticker |-> "NFLX"]
  >>

\* ['Technology', 'Finance', 'Healthcare', 'Retail', 'Energy']
SecIndustries == <<"Technology", "Finance", "Healthcare", "Retail", "Energy">>

(* Bodies the SEC endpoint may answer with: Object.values(response.data) *)

PayloadShort ==
  <<
    [title |-> "beta corp", ticker |-> "BC"],
    [title |-> "Alpha Inc", ticker |-> "AI"],
    [title |-> "alpha inc", ticker |-> "AL"]
  >>

PayloadSeven ==
  <<
    [title |-> "Zeta", ticker |-> "Z"],
    [title |-> "eta", ticker |-> "E"],
    [title |-> "Eta", ticker |-> "EE"],
    [title |-> "Acme", ticker |-> "A"],
    [title |-> "delta", ticker |-> "D"],
    [title |-> "Beta", ticker |-> "B"],
    [title |-> "acme co", ticker |-> "AC"]
  >>

PayloadLong ==
  <<
    [title |-> "Co U", ticker |-> "CU"],
    [title |-> "Co T", ticker |-> "CT"],
    [title |-> "Co S", ticker |-> "CS"],
    [title |-> "Co R", ticker |-> "CR"],
    [title |-> "Co Q", ticker |-> "CQ"],
    [title |-> "Co P", ticker |-> "CP"],
    [title |-> "Co O", ticker |-> "CO"],
    [title |-> "Co N", ticker |-> "CN"],
    [title |-> "Co M", ticker |-> "CM"],
    [title |-> "Co L", ticker |-> "CL"],
    [title |-> "Co K", ticker |-> "CK"],
    [title |-> "Co J", ticker |-> "CJ"],
    [title |-> "Co I", ticker |-> "CI"],
    [title |-> "Co H", ticker |-> "CH"],
    [title |-> "Co G", ticker |-> "CG"],
    [title |-> "Co F", ticker |-> "CF"],
    [title |-> "Co E", ticker |-> "CE"],
    [title |-> "Co D", ticker |-> "CD"],
    [title |-> "Co C", ticker |-> "CC"],
    [title |-> "Co B", ticker |-> "CB"],
    [title |-> "Co A", ticker |-> "CA"]
  >>

\* SEC bodies that hold entries
Payloads == {PayloadShort, PayloadLong}

\* what axios.get can come back with: a 2xx answer with a body (an object
\* of entries, possibly empty, or null), or a rejection
SecOutcomes ==
  {[kind |-> "ok", data |-> Some(p)] : p \in Payloads \cup {<<>>}}
    \cup {[kind |-> "ok", data |-> None]}
    \cup {[kind |-> k] : k \in {"network error", "timeout", "bad status"}}

\* the external call failed: network error, timeout, non-success status, or
\* a body that yields no entries
SecFailed(o) == o.kind # "ok" \/ ~o.data.some \/ Len(o.data.val) = 0

\* the k-th Math.floor(Math.random() * n) of a fetch, under draw d
RandomFloor(d, k, n) == ((d + 1) * k * 1237) % n

\* the try block of fetchFromSEC
SecTry(o, d) ==
  IF o.kind # "ok" THEN Thrown                  \* axios rejects
  ELSE IF ~o.data.some THEN Thrown              \* Object.values(null) throws
  ELSE
    LET values == o.data.val
        secData == SubSeq(values, 1, Min(SecSliceEnd, Len(values)))
    IN Returned(
         [i \in 1..Len(secData) |->
            [id |-> i,
             name |-> secData[i].title,
             location |-> "United States",
             industry |-> SecIndustries[((i - 1) % 5) + 1],
             employees |-> RandomFloor(d, 2 * i - 1, 5000) + 100,
             founded |-> RandomFloor(d, 2 * i, 2020 - 1950) + 1950,
             ticker |-> secData[i].ticker]])

\* a fetchFromSEC whose catch block lets the error through
fetchFromSEC_rethrow(o, d) ==
  LET r == SecTry(o, d)
  IN IF r.threw THEN Thrown ELSE Returned(Some(r.val))

fetchFromSEC(o, d) ==
  LET r == SecTry(o, d)
  IN IF r.threw THEN Returned(None) ELSE Returned(Some(r.val))

\* a fetchCompanies that tests only "if (secData)", not its length
fetchCompanies_noLengthCheck(o, d) ==
  LET secData == fetchFromSEC(o, d)
  IN IF secData.threw THEN Thrown
     ELSE IF secData.val.some
          THEN Returned(secData.val.val)
          ELSE Returned(getRealCompanies)

\* a fetchCompanies that never returns what the SEC call gave
fetchCompanies_alwaysFallback(o, d) ==
  LET secData == fetchFromSEC(o, d)
  IN IF secData.threw THEN Thrown ELSE Returned(getRealCompanies)

fetchCompanies(o, d) ==
  LET secData == fetchFromSEC(o, d)
  IN IF secData.threw THEN Thrown
     ELSE IF secData.val.some /\ Len(secData.val.val) > 0
          THEN Returned(secData.val.val)
          ELSE Returned(getRealCompanies)

-----------------------------------------------------------------------------
(* Backend state and routes: server.js *)

Requests == {"r1", "r2"}

\* the :id path segments the model sends
IdParams == {"20", "21", "2x", "abc"}

NoResponse == [status |-> 0]

IdleRequest ==
  [kind |-> "none", pc |-> "idle", currentTime |-> 0, id |-> "",
   calls |-> 0, failed |-> FALSE, res |-> NoResponse]

ServerInit ==
  /\ cachedCompanies = None
  /\ lastFetchTime = None
  /\ now = StartTime
  /\ req = [r \in Requests |-> IdleRequest]

\* a connection is free for a new request
Free(r) == req[r].pc \in {"idle", "done"}

\* the JavaScript truth value of a number or null
TruthyNumber(n) == n.some /\ n.val # 0

\* a freshness test with the comparison turned round
Fresh_olderThanWindow(currentTime) ==
  /\ cachedCompanies.some
  /\ TruthyNumber(lastFetchTime)
  /\ (currentTime - lastFetchTime.val) > CACHE_DURATION

\* server.js:93
Fresh(currentTime) ==
  /\ cachedCompanies.some
  /\ TruthyNumber(lastFetchTime)
  /\ (currentTime - lastFetchTime.val) < CACHE_DURATION

\* the request record once the answer res is sent; failed records whether the
\* request's external call failed
Done(r, failed, res) ==
  [req EXCEPT ![r] = [kind |-> req[r].kind, pc |-> "done", currentTime |-> 0,
                      id |-> req[r].id, calls |-> req[r].calls,
                      failed |-> failed, res |-> res]]

\* GET /api/companies, up to the cached answer or the await
GetCompanies(r) ==
  /\ Free(r)
  /\ LET currentTime == now
     IN IF Fresh(currentTime)
        THEN req' = [req EXCEPT ![r] =
                       [kind |-> "list", pc |-> "done", currentTime |-> 0,
                        id |-> "", calls |-> 0, failed |-> FALSE,
                        res |-> [status |-> 200, success |-> TRUE,
                                 data |-> cachedCompanies.val,
                                 count |-> Len(cachedCompanies.val),
                                 source |-> "cache"]]]
        ELSE req' = [req EXCEPT ![r] =
                       [kind |-> "list", pc |-> "fetching",
                        currentTime |-> currentTime, id |-> "",
                        calls |-> 1, failed |-> FALSE, res |-> NoResponse]]
  /\ UNCHANGED <<cachedCompanies, lastFetchTime, now, viewVars>>

\* GET /api/companies, from the await on
GetCompaniesResume(r, o, d) ==
  /\ req[r].kind = "list" /\ req[r].pc = "fetching"
  /\ LET fetched == fetchCompanies(o, d)
     IN IF fetched.threw
        THEN /\ req' = Done(r, SecFailed(o),
                            [status |-> 500, success |-> FALSE,
                             message |-> "Failed to fetch companies"])
             /\ UNCHANGED <<cachedCompanies, lastFetchTime>>
        ELSE /\ cachedCompanies' = Some(fetched.val)
             /\ lastFetchTime' = Some(req[r].currentTime)
             /\ req' = Done(r, SecFailed(o),
                            [status |-> 200, success |-> TRUE,
                             data |-> fetched.val,
                             count |-> Len(fetched.val),
                             source |-> "api"])
  /\ UNCHANGED <<now, viewVars>>

\* a lookup by position, cachedCompanies[parseInt(req.params.id)]
find_byIndex(list, wanted) ==
  IF ~wanted.nan /\ wanted.val + 1 \in 1..Len(list)
  THEN Some(list[wanted.val + 1])
  ELSE None

\* Array.prototype.find(c => c.id === parseInt(req.params.id))
RECURSIVE find(_, _)
find(list, wanted) ==
  IF list = <<>> THEN None
  ELSE IF ~wanted.nan /\ Head(list).id = wanted.val THEN Some(Head(list))
  ELSE find(Tail(list), wanted)

\* server.js:134-143
LookupResponse(list, id) ==
  LET company == find(list, parseInt(id))
  IN IF ~company.some
     THEN [status |-> 404, success |-> FALSE, message |-> "Company not found"]
     ELSE [status |-> 200, success |-> TRUE, data |-> company.val]

\* GET /api/companies/:id, up to the answer or the await
GetById(r) ==
  /\ Free(r)
  /\ \E id \in IdParams :
       IF ~cachedCompanies.some
       THEN req' = [req EXCEPT ![r] =
                      [kind |-> "byId", pc |-> "fetching", currentTime |-> 0,
                       id |-> id, calls |-> 1, failed |-> FALSE, res |-> NoResponse]]
       ELSE req' = [req EXCEPT ![r] =
                      [kind |-> "byId", pc |-> "done", currentTime |-> 0,
                       id |-> id, calls |-> 0, failed |-> FALSE,
                       res |-> LookupResponse(cachedCompanies.val, id)]]
  /\ UNCHANGED <<cachedCompanies, lastFetchTime, now, viewVars>>

\* GET /api/companies/:id, from the await on
GetByIdResume(r, o, d) ==
  /\ req[r].kind = "byId" /\ req[r].pc = "fetching"
  /\ LET fetched == fetchCompanies(o, d)
     IN IF fetched.threw
        THEN /\ req' = Done(r, SecFailed(o),
                            [status |-> 500, success |-> FALSE,
                             message |-> "Error fetching company"])
             /\ UNCHANGED cachedCompanies
        ELSE /\ cachedCompanies' = Some(fetched.val)
             /\ req' = Done(r, SecFailed(o),
                            LookupResponse(fetched.val, req[r].id))
  /\ UNCHANGED <<lastFetchTime, now, viewVars>>

\* POST /api/companies/refresh, up to the await
Refresh(r) ==
  /\ Free(r)
  /\ req' = [req EXCEPT ![r] =
               [kind |-> "refresh", pc |-> "fetching", currentTime |-> 0,
                id |-> "", calls |-> 1, failed |-> FALSE, res |-> NoResponse]]
  /\ UNCHANGED <<cachedCompanies, lastFetchTime, now, viewVars>>

\* POST /api/companies/refresh, from the await on
RefreshResume(r, o, d) ==
  /\ req[r].kind = "refresh" /\ req[r].pc = "fetching"
  /\ LET fetched == fetchCompanies(o, d)
     IN IF fetched.threw
        THEN /\ req' = Done(r, SecFailed(o),
                            [status |-> 500, success |-> FALSE,
                             message |-> "Failed to refresh data"])
             /\ UNCHANGED <<cachedCompanies, lastFetchTime>>
        ELSE /\ cachedCompanies' = Some(fetched.val)
             /\ lastFetchTime' = Some(now)
             /\ req' = Done(r, SecFailed(o),
                            [status |-> 200, success |-> TRUE,
                             message |-> "Data refreshed successfully",
                             data |-> fetched.val,
                             count |-> Len(fetched.val)])
  /\ UNCHANGED <<now, viewVars>>

\* time passes
Tick ==
  /\ now < StartTime + MaxTicks * TickStep
  /\ now' = now + TickStep
  /\ UNCHANGED <<cachedCompanies, lastFetchTime, req, viewVars>>

ServerNext ==
  \/ \E r \in Requests : GetCompanies(r)
  \/ \E r \in Requests, o \in SecOutcomes, d \in 0..MaxDraw :
       GetCompaniesResume(r, o, d)
  \/ \E r \in Requests : GetById(r)
  \/ \E r \in Requests, o \in SecOutcomes, d \in 0..MaxDraw :
       GetByIdResume(r, o, d)
  \/ \E r \in Requests : Refresh(r)
  \/ \E r \in Requests, o \in SecOutcomes, d \in 0..MaxDraw :
       RefreshResume(r, o, d)
  \/ Tick

-----------------------------------------------------------------------------
(* Frontend view model: App.js *)

\* how many of the options of a select, and how many page buttons, the
\* modelled user picks from
MaxOptions == 2

\* the texts the modelled user types into the search box
SearchTerms == {"", "ny", "INC", "zz"}

SortFields == {"name", "location", "industry", "employees", "founded"}

\* typeof company[field] === 'string'
IsStringField(field) == field \in {"name", "location", "industry", "ticker"}

\* the bodies GET /api/companies may carry to the page
ViewOutcomes ==
  {[kind |-> "ok", data |-> Some(p)] : p \in {PayloadShort, PayloadSeven}}
    \cup {[kind |-> "timeout"]}

ServerAnswers ==
  {fetchCompanies(o, d).val : o \in ViewOutcomes, d \in 0..MaxDraw}

\* a > b and a < b of JavaScript, on two strings or on two numbers
JsLess(a, b, strings) == IF strings THEN StrLess(a, b) ELSE a < b

JsGreater(a, b, strings) == JsLess(b, a, strings)

\* the comparator of App.js:84-98, with its direction test dropped
SortComparator_ignoresOrder(a, b, by, order) ==
  LET strings == IsStringField(by)
      aVal == IF strings THEN toLowerCase(Units(a[by])) ELSE a[by]
      bVal == IF strings THEN toLowerCase(Units(b[by])) ELSE b[by]
  IN IF JsGreater(aVal, bVal, strings) THEN 1 ELSE -1

\* the comparator of App.js:84-98
SortComparator(a, b, by, order) ==
  LET strings == IsStringField(by)
      aVal == IF strings THEN toLowerCase(Units(a[by])) ELSE a[by]
      bVal == IF strings THEN toLowerCase(Units(b[by])) ELSE b[by]
  IN IF order = "asc"
     THEN IF JsGreater(aVal, bVal, strings) THEN 1 ELSE -1
     ELSE IF JsLess(aVal, bVal, strings) THEN 1 ELSE -1

\* the comparison sort() makes with no comparator: strings by code units
DefaultComparator(a, b) ==
  IF StrLess(Units(a), Units(b)) THEN -1
  ELSE IF StrLess(Units(b), Units(a)) THEN 1
  ELSE 0

\* c names the comparator: the one of App.js with its [by, order], or none
CallCompare(c, a, b) ==
  IF c.kind = "default" THEN DefaultComparator(a, b)
  ELSE SortComparator(a, b, c.by, c.order)

(* Array.prototype.sort as V8 runs it on fewer than 64 elements: the first  *)
(* run is counted (and reversed when it descends), the rest is put in place *)
(* by binary insertion.  Positions are counted from 0, as there.            *)

RECURSIVE RunLength(_, _, _, _)
RunLength(arr, c, isDescending, idx) ==
  IF idx >= Len(arr) THEN Len(arr)
  ELSE LET order == CallCompare(c, arr[idx + 1], arr[idx])
       IN IF isDescending /\ order >= 0 THEN idx
          ELSE IF ~isDescending /\ order < 0 THEN idx
          ELSE RunLength(arr, c, isDescending, idx + 1)

ReverseRange(arr, to) ==
  [p \in 1..Len(arr) |-> IF p <= to THEN arr[to + 1 - p] ELSE arr[p]]

CountAndMakeRun(arr, c) ==
  IF Len(arr) = 1 THEN [runLength |-> 1, arr |-> arr]
  ELSE LET isDescending == CallCompare(c, arr[2], arr[1]) < 0
           runLength == RunLength(arr, c, isDescending, 2)
       IN [runLength |-> runLength,
           arr |-> IF isDescending THEN ReverseRange(arr, runLength) ELSE arr]

RECURSIVE InsertionPoint(_, _, _, _, _)
InsertionPoint(arr, c, pivot, left, right) ==
  IF left >= right THEN left
  ELSE LET mid == left + ((right - left) \div 2)
           order == CallCompare(c, pivot, arr[mid + 1])
       IN IF order < 0
          THEN InsertionPoint(arr, c, pivot, left, mid)
          ELSE InsertionPoint(arr, c, pivot, mid + 1, right)

RECURSIVE BinaryInsertionSort(_, _, _)
BinaryInsertionSort(arr, c, start) ==
  IF start >= Len(arr) THEN arr
  ELSE LET pivot == arr[start + 1]
           left == InsertionPoint(arr, c, pivot, 0, start)
           moved == [p \in 1..Len(arr) |->
                       IF p - 1 < left \/ p - 1 > start THEN arr[p]
                       ELSE IF p - 1 = left THEN pivot
                       ELSE arr[p - 1]]
       IN BinaryInsertionSort(moved, c, start + 1)

ArraySort(arr, c) ==
  IF Len(arr) < 2 THEN arr
  ELSE LET run == CountAndMakeRun(arr, c)
       IN BinaryInsertionSort(run.arr, c, run.runLength)

\* [...new Set(values)]: the distinct values, in order of first occurrence
RECURSIVE Distinct(_)
Distinct(values) ==
  IF values = <<>> THEN <<>>
  ELSE LET init == Distinct(SubSeq(values, 1, Len(values) - 1))
           last == values[Len(values)]
       IN IF \E i \in 1..Len(init) : init[i] = last
          THEN init
          ELSE Append(init, last)

\* the distinct values left in order of first occurrence, without sort()
UniqueSorted_unsorted(list, field) ==
  Distinct([i \in 1..Len(list) |-> list[i][field]])

\* App.js:63-66 and 68-71
UniqueSorted(list, field) ==
  ArraySort(Distinct([i \in 1..Len(list) |-> list[i][field]]),
            [kind |-> "default"])

locations == UniqueSorted(companies, "location")

industries == UniqueSorted(companies, "industry")

\* a filter test that compares the search text as typed, not lower-cased
Matches_caseSensitive(company, term, loc, ind) ==
  LET matchesSearch ==
        \/ includes(toLowerCase(Units(company.name)), Units(term))
        \/ includes(toLowerCase(Units(company.location)), Units(term))
      matchesLocation == loc = "" \/ company.location = loc
      matchesIndustry == ind = "" \/ company.industry = ind
  IN matchesSearch /\ matchesLocation /\ matchesIndustry

\* the test of App.js:75-81
Matches(company, term, loc, ind) ==
  LET matchesSearch ==
        \/ includes(toLowerCase(Units(company.name)), toLowerCase(Units(term)))
        \/ includes(toLowerCase(Units(company.location)),
                    toLowerCase(Units(term)))
      matchesLocation == loc = "" \/ company.location = loc
      matchesIndustry == ind = "" \/ company.industry = ind
  IN matchesSearch /\ matchesLocation /\ matchesIndustry

\* App.js:74-101 as a function of the record list and the view parameters
FilterAndSort(list, term, loc, ind, by, order) ==
  LET filtered == SelectSeq(list, LAMBDA company : Matches(company, term, loc, ind))
  IN ArraySort(filtered, [kind |-> "compareFn", by |-> by, order |-> order])

filteredCompanies ==
  FilterAndSort(companies, searchTerm, locationFilter, industryFilter,
                sortBy, sortOrder)

\* a page count that rounds down
PageCount_floor(count) == count \div itemsPerPage

\* Math.ceil(count / itemsPerPage)
PageCount(count) ==
  IF count % itemsPerPage = 0
  THEN count \div itemsPerPage
  ELSE count \div itemsPerPage + 1

totalPages == PageCount(Len(filteredCompanies))

\* Array.prototype.slice(begin, end) for 0 <= begin <= end
Slice(arr, begin, end) ==
  SubSeq(arr, Min(begin, Len(arr)) + 1, Min(end, Len(arr)))

\* App.js:105-108 for a given page
PageOf(list, page) ==
  Slice(list, (page - 1) * itemsPerPage, page * itemsPerPage)

paginatedCompanies == PageOf(filteredCompanies, currentPage)

\* the page is drawn: neither the loading screen nor the error screen
Rendered == ~loading /\ ~error.some

\* the first MaxOptions entries of a list of options
Offered(options) == {options[i] : i \in 1..Min(MaxOptions, Len(options))}

\* fetchCompanies of App.js, from its await on
FetchCompaniesSettles ==
  /\ fetching = "get"
  /\ \/ \E data \in ServerAnswers :
          /\ companies' = data
          /\ UNCHANGED error
     \/ /\ error' = Some("Unable to load companies. Make sure the backend server is running on port 5000.")
        /\ UNCHANGED companies
  /\ loading' = FALSE
  /\ fetching' = "none"
  /\ refreshing' = FALSE
  /\ UNCHANGED <<searchTerm, locationFilter, industryFilter, sortBy,
                 sortOrder, currentPage, viewMode, serverVars>>

\* handleRefresh, up to its first await
HandleRefresh ==
  /\ Rendered /\ ~refreshing
  /\ refreshing' = TRUE
  /\ fetching' = "post"
  /\ UNCHANGED <<companies, loading, error, searchTerm, locationFilter,
                 industryFilter, sortBy, sortOrder, currentPage, viewMode,
                 serverVars>>

\* handleRefresh, once the POST is settled: fetchCompanies up to its await,
\* or the catch block when the POST could not be sent
RefreshPostSettles ==
  /\ fetching = "post"
  /\ \/ /\ loading' = TRUE
        /\ error' = None
        /\ fetching' = "get"
        /\ UNCHANGED refreshing
     \/ /\ refreshing' = FALSE
        /\ fetching' = "none"
        /\ UNCHANGED <<loading, error>>
  /\ UNCHANGED <<companies, searchTerm, locationFilter, industryFilter,
                 sortBy, sortOrder, currentPage, viewMode, serverVars>>

\* the Retry Connection button: window.location.reload()
RetryConnection ==
  /\ ~loading /\ error.some
  /\ companies' = <<>>
  /\ loading' = TRUE
  /\ error' = None
  /\ searchTerm' = ""
  /\ locationFilter' = ""
  /\ industryFilter' = ""
  /\ sortBy' = "name"
  /\ sortOrder' = "asc"
  /\ currentPage' = 1
  /\ viewMode' = "table"
  /\ refreshing' = FALSE
  /\ fetching' = "get"
  /\ UNCHANGED serverVars

SetViewMode(mode) ==
  /\ Rendered
  /\ viewMode' = mode
  /\ UNCHANGED <<companies, loading, error, searchTerm, locationFilter,
                 industryFilter, sortBy, sortOrder, currentPage, refreshing,
                 fetching, serverVars>>

\* App.js:228-231
OnSearchChange(value) ==
  /\ Rendered
  /\ searchTerm' = value
  /\ currentPage' = 1
  /\ UNCHANGED <<companies, loading, error, locationFilter, industryFilter,
                 sortBy, sortOrder, viewMode, refreshing, fetching, serverVars>>

\* App.js:244-247
OnLocationChange(value) ==
  /\ Rendered
  /\ locationFilter' = value
  /\ currentPage' = 1
  /\ UNCHANGED <<companies, loading, error, searchTerm, industryFilter,
                 sortBy, sortOrder, viewMode, refreshing, fetching, serverVars>>

\* App.js:264-267
OnIndustryChange(value) ==
  /\ Rendered
  /\ industryFilter' = value
  /\ currentPage' = 1
  /\ UNCHANGED <<companies, loading, error, searchTerm, locationFilter,
                 sortBy, sortOrder, viewMode, refreshing, fetching, serverVars>>

\* App.js:110-117, from a click on a header of the table
handleSort(field) ==
  /\ Rendered /\ viewMode = "table"
  /\ IF sortBy = field
     THEN /\ sortOrder' = (IF sortOrder = "asc" THEN "desc" ELSE "asc")
          /\ UNCHANGED sortBy
     ELSE /\ sortBy' = field
          /\ sortOrder' = "asc"
  /\ UNCHANGED <<companies, loading, error, searchTerm, locationFilter,
                 industryFilter, currentPage, viewMode, refreshing, fetching,
                 serverVars>>

\* App.js:119-126
resetFilters ==
  /\ Rendered
  /\ searchTerm' = ""
  /\ locationFilter' = ""
  /\ industryFilter' = ""
  /\ sortBy' = "name"
  /\ sortOrder' = "asc"
  /\ currentPage' = 1
  /\ UNCHANGED <<companies, loading, error, viewMode, refreshing, fetching,
                 serverVars>>

SetCurrentPage(page) ==
  /\ currentPage' = page
  /\ UNCHANGED <<companies, loading, error, searchTerm, locationFilter,
                 industryFilter, sortBy, sortOrder, viewMode, refreshing,
                 fetching, serverVars>>

\* App.js:437-443
Previous ==
  /\ Rendered /\ totalPages > 1
  /\ currentPage # 1
  /\ SetCurrentPage(Max(1, currentPage - 1))

\* App.js:446-458
PageButton(i) ==
  /\ Rendered /\ totalPages > 1
  /\ i \in 0..(totalPages - 1)
  /\ SetCurrentPage(i + 1)

\* App.js:461-467
NextPage ==
  /\ Rendered /\ totalPages > 1
  /\ currentPage # totalPages
  /\ SetCurrentPage(Min(totalPages, currentPage + 1))

ViewNext ==
  \/ FetchCompaniesSettles
  \/ HandleRefresh
  \/ RefreshPostSettles
  \/ RetryConnection
  \/ \E mode \in {"table", "card"} : SetViewMode(mode)
  \/ \E value \in SearchTerms : OnSearchChange(value)
  \/ \E value \in {""} \cup Offered(locations) : OnLocationChange(value)
  \/ \E value \in {""} \cup Offered(industries) : OnIndustryChange(value)
  \/ \E field \in SortFields : handleSort(field)
  \/ resetFilters
  \/ Previous
  \/ \E i \in 0..MaxOptions : PageButton(i)
  \/ NextPage

ViewInit ==
  /\ companies = <<>>
  /\ loading = TRUE
  /\ error = None
  /\ searchTerm = ""
  /\ locationFilter = ""
  /\ industryFilter = ""
  /\ sortBy = "name"
  /\ sortOrder = "asc"
  /\ currentPage = 1
  /\ viewMode = "table"
  /\ refreshing = FALSE
  /\ fetching = "get"

Init == ServerInit /\ ViewInit

Spec == Init /\ [][ServerNext]_vars

\* the page alone, fed with the answers the backend can give
ViewSpec == Init /\ [][ViewNext]_vars


\* the call a list read awaits runs into axios's timeout (server.js:50)
TimesOut(r) == GetCompaniesResume(r, [kind |-> "timeout"], 0)

\* no list read awaits the external call for ever: a call that has not come
\* back after 5 s times out
FairSpec == Spec /\ \A r \in Requests : WF_vars(TimesOut(r))

-----------------------------------------------------------------------------
(* Claims about the backend *)

\* connection r takes a new request of the given kind in this step
Arrives(r, kind) ==
  /\ Free(r)
  /\ req'[r] # req[r]
  /\ req'[r].kind = kind

\* connection r's awaited fetch comes back in this step
Completes(r, kind) ==
  /\ req[r].kind = kind
  /\ req[r].pc = "fetching"
  /\ req'[r].pc = "done"

\* C1: once a list read or a refresh has stored a snapshot with its time, a
\* GET /api/companies arriving less than CACHE_DURATION after that time is
\* answered at once with the stored list and source "cache", calls the
\* external source zero times and leaves the snapshot as it is.
C1_CacheFreshness ==
  [][\A r \in Requests :
       ( /\ Arrives(r, "list")
         /\ cachedCompanies.some
         /\ lastFetchTime.some
         /\ now - lastFetchTime.val < CACHE_DURATION )
       => /\ req'[r].pc = "done"
          /\ req'[r].calls = 0
          /\ req'[r].res.status = 200
          /\ req'[r].res.source = "cache"
          /\ req'[r].res.data = cachedCompanies.val
          /\ cachedCompanies' = cachedCompanies
          /\ lastFetchTime' = lastFetchTime]_vars

\* a list read answered from the cache after time has passed since the
\* snapshot was stored, the snapshot still being fresh
C1_Witness ==
  \E r \in Requests :
    /\ req[r].kind = "list" /\ req[r].pc = "done"
    /\ req[r].res.status = 200
    /\ req[r].res.source = "cache"
    /\ lastFetchTime.some
    /\ now > lastFetchTime.val
    /\ now - lastFetchTime.val < CACHE_DURATION

\* a list read or refresh that fetched, and whose external call failed
FailedFetch(r) ==
  /\ req[r].kind \in {"list", "refresh"}
  /\ req[r].pc = "done"
  /\ req[r].calls = 1
  /\ req[r].failed

C3_Original ==
  [][\A r \in Requests :
       ( /\ Completes(r, "list") \/ Completes(r, "refresh")
         /\ req'[r].failed
         /\ cachedCompanies.some )
       => cachedCompanies' = cachedCompanies]_vars

\* C3 amended: every list read or refresh that fetched replaces the snapshot
\* wholesale: by the curated fallback list when the external call failed
\* (whatever the cache held before), and by the records mapped from the
\* source, which it answers with, when the call succeeded.
C3_SnapshotReplaced ==
  [][\A r \in Requests :
       (Completes(r, "list") \/ Completes(r, "refresh"))
       => /\ cachedCompanies'.some
          /\ cachedCompanies'.val = req'[r].res.data
          /\ req'[r].failed => cachedCompanies'.val = getRealCompanies
          /\ ~req'[r].failed => cachedCompanies'.val # getRealCompanies]_vars

\* the cache holds the fallback list after a failed fetch that followed a
\* snapshot of primary data (some answer still carries that primary data)
C3_Witness ==
  /\ cachedCompanies = Some(getRealCompanies)
  /\ \E r1, r2 \in Requests :
       /\ FailedFetch(r1)
       /\ req[r2].pc = "done" /\ req[r2].kind \in {"list", "refresh"}
       /\ req[r2].res.data # getRealCompanies
       /\ req[r2].calls = 1

\* C4: whatever the external call comes back with, every GET /api/companies
\* is answered, and the answer is status 200, success true, with a list that
\* is not empty.
C4_ReadPathAnswers ==
  /\ \A r \in Requests :
       (req[r].kind = "list" /\ req[r].pc = "fetching")
         ~> (req[r].kind = "list" /\ req[r].pc = "done")
  /\ [](\A r \in Requests :
          (req[r].kind = "list" /\ req[r].pc = "done")
          => /\ req[r].res.status = 200
             /\ req[r].res.success
             /\ Len(req[r].res.data) > 0
             /\ req[r].res.count > 0)

\* a list read answered after its external call failed
C4_Witness ==
  \E r \in Requests :
    /\ FailedFetch(r) /\ req[r].kind = "list"
    /\ req[r].res.status = 200

\* C5: GET /api/companies/:id answers 200 with the record of the current
\* snapshot whose id is the number parseInt reads from :id exactly when the
\* snapshot holds such a record, and 404 "Company not found" otherwise, never
\* 500; a lookup on a populated cache leaves the stored list as it is.
C5_GetByIdOutcome ==
  [][\A r \in Requests :
       (Arrives(r, "byId") \/ Completes(r, "byId"))
       => \/ req'[r].pc = "fetching"
          \/ LET snapshot == cachedCompanies'.val
                 wanted == parseInt(req'[r].id)
                 exists == /\ ~wanted.nan
                           /\ \E i \in 1..Len(snapshot) : snapshot[i].id = wanted.val
                 res == req'[r].res
             IN /\ req'[r].pc = "done"
                /\ res.status = 200 <=> exists
                /\ res.status = 200
                     => /\ res.data.id = wanted.val
                        /\ \E i \in 1..Len(snapshot) : snapshot[i] = res.data
                /\ res.status # 200
                     => /\ res.status = 404
                        /\ res.message = "Company not found"
                /\ Arrives(r, "byId") => cachedCompanies' = cachedCompanies]_vars

\* one lookup found its record and another did not
C5_Witness ==
  \E r1, r2 \in Requests :
    /\ req[r1].kind = "byId" /\ req[r1].pc = "done" /\ req[r1].res.status = 200
    /\ req[r2].kind = "byId" /\ req[r2].pc = "done" /\ req[r2].res.status = 404
    /\ ~parseInt(req[r2].id).nan

-----------------------------------------------------------------------------
(* Claims about the frontend *)

\* a code unit with A-Z folded onto a-z
Fold(c) == IF c \in 65..90 THEN c + 32 ELSE c

\* term occurs in text when case is ignored
OccursIgnoringCase(term, text) ==
  LET t == Units(term)
      s == Units(text)
  IN \E k \in 0..(Len(s) - Len(t)) :
       \A i \in 1..Len(t) : Fold(s[k + i]) = Fold(t[i])

\* the record passes the three filters of the view state
Kept(company) ==
  /\ \/ searchTerm = ""
     \/ OccursIgnoringCase(searchTerm, company.name)
     \/ OccursIgnoringCase(searchTerm, company.location)
  /\ locationFilter = "" \/ company.location = locationFilter
  /\ industryFilter = "" \/ company.industry = industryFilter

\* how often a record occurs in a list
Occurrences(list, company) ==
  Cardinality({j \in 1..Len(list) : list[j] = company})

\* C6: filteredCompanies holds every record of the list that passes the
\* search text (a substring of name or location, case ignored, or empty), the
\* location filter and the industry filter exactly once, and nothing else;
\* with the three empty it is a permutation of the whole list.
C6_Filter ==
  LET f == filteredCompanies
  IN /\ \A i \in 1..Len(companies) :
          Occurrences(f, companies[i]) = (IF Kept(companies[i]) THEN 1 ELSE 0)
     /\ \A j \in 1..Len(f) : \E i \in 1..Len(companies) : companies[i] = f[j]
     /\ (searchTerm = "" /\ locationFilter = "" /\ industryFilter = "")
          => Len(f) = Len(companies)

\* a search text and a location filter together keep some records and drop
\* others; one of the kept ones matches the text only when case is ignored
C6_Witness ==
  /\ searchTerm = "INC" /\ locationFilter # ""
  /\ Len(filteredCompanies) > 0
  /\ Len(filteredCompanies) < Len(companies)
  /\ \E i \in 1..Len(companies) :
       /\ Kept(companies[i])
       /\ ~includes(Units(companies[i].name), Units(searchTerm))

\* the sort key of a record: strings lower-cased, numbers as they are
SortKey(company, by) ==
  IF IsStringField(by) THEN toLowerCase(Units(company[by])) ELSE company[by]

KeyLess(a, b, by) == JsLess(SortKey(a, by), SortKey(b, by), IsStringField(by))

\* the position of a record in a list that holds it once
PositionIn(list, company) == CHOOSE j \in 1..Len(list) : list[j] = company

\* C7: in filteredCompanies no record is followed by one whose key (strings
\* compared with case ignored, numbers by value) belongs before it in the
\* chosen direction; sorting the same records in the other direction puts
\* every two records with different keys the other way round.
C7_Sort ==
  LET f == filteredCompanies
      flipped == FilterAndSort(companies, searchTerm, locationFilter,
                               industryFilter, sortBy,
                               IF sortOrder = "asc" THEN "desc" ELSE "asc")
  IN /\ \A i \in 1..(Len(f) - 1) :
          IF sortOrder = "asc"
          THEN ~KeyLess(f[i + 1], f[i], sortBy)
          ELSE ~KeyLess(f[i], f[i + 1], sortBy)
     /\ Len(flipped) = Len(f)
     /\ \A i, j \in 1..Len(f) :
          (i < j /\ (KeyLess(f[i], f[j], sortBy) \/ KeyLess(f[j], f[i], sortBy)))
          => PositionIn(flipped, f[i]) > PositionIn(flipped, f[j])

\* a descending sort on a string key over more than one page of records, some
\* with equal keys, some that differ only by case from their neighbours' order
C7_Witness ==
  /\ sortOrder = "desc" /\ sortBy = "location"
  /\ Len(filteredCompanies) > itemsPerPage
  /\ \E i \in 1..(Len(filteredCompanies) - 1) :
       filteredCompanies[i].location = filteredCompanies[i + 1].location
  /\ \E i \in 1..(Len(filteredCompanies) - 1) :
       filteredCompanies[i].location # filteredCompanies[i + 1].location

\* the pages 1..pages of a list, one after the other
RECURSIVE ConcatPages(_, _)
ConcatPages(list, pages) ==
  IF pages = 0 THEN <<>>
  ELSE ConcatPages(list, pages - 1) \o PageOf(list, pages)

\* C8: totalPages is the least number of pages of 6 that hold all of
\* filteredCompanies (0 for none); the slices of pages 1..totalPages, one
\* after the other, are filteredCompanies, and every page but the last holds
\* exactly 6 records.
C8_Pagination ==
  LET f == filteredCompanies
  IN /\ totalPages >= 0
     /\ totalPages * 6 >= Len(f)
     /\ totalPages > 0 => (totalPages - 1) * 6 < Len(f)
     /\ Len(f) = 0 => totalPages = 0
     /\ ConcatPages(f, totalPages) = f
     /\ \A p \in 1..(totalPages - 1) : Len(PageOf(f, p)) = 6
     /\ totalPages > 0 => Len(PageOf(f, totalPages)) \in 1..6

\* more than two pages, the last one not full
C8_Witness ==
  /\ totalPages > 2
  /\ Len(filteredCompanies) % 6 # 0

\* C9 as stated: the page used for slicing always lies in
\* 1..max(1, totalPages).
C9_PageValid == currentPage \in 1..Max(1, totalPages)

\* C10 as stated: every change of the search text, a filter, the sort key or
\* the sort direction leaves the page at 1.
C10_PageReset ==
  [][( \/ searchTerm' # searchTerm
       \/ locationFilter' # locationFilter
       \/ industryFilter' # industryFilter
       \/ sortBy' # sortBy
       \/ sortOrder' # sortOrder )
     => currentPage' = 1]_vars


\* the options hold each value of the field over the whole record list once,
\* in ascending order of their code units
ChoicesOf(options, field) ==
  /\ {options[i] : i \in 1..Len(options)}
       = {companies[i][field] : i \in 1..Len(companies)}
  /\ \A i \in 1..(Len(options) - 1) :
       StrLess(Units(options[i]), Units(options[i + 1]))

\* C11: locations and industries are the distinct locations and industries
\* of the whole, unfiltered record list in sorted order, and no change of the
\* search text, a filter, the sort key, the sort direction or the page made
\* from the drawn page changes the record list or its order (the sort inside
\* filteredCompanies works on the filtered copy), and so none changes the
\* choices, which the record list alone determines.
C11_FilterChoices ==
  /\ [](ChoicesOf(locations, "location") /\ ChoicesOf(industries, "industry"))
  /\ [][( /\ Rendered
          /\ \/ searchTerm' # searchTerm
             \/ locationFilter' # locationFilter
             \/ industryFilter' # industryFilter
             \/ sortBy' # sortBy
             \/ sortOrder' # sortOrder
             \/ currentPage' # currentPage )
        => companies' = companies]_vars

\* a filter and a descending sort are in force on a later page: the filtered
\* list is shorter than the record list and ordered differently, while several
\* locations and industries are on offer, not in their order of occurrence
C11_Witness ==
  /\ Rendered
  /\ locationFilter # "" /\ sortOrder = "desc"
  /\ Len(filteredCompanies) > 0
  /\ Len(filteredCompanies) < Len(companies)
  /\ Len(locations) > 2 /\ Len(industries) > 2
  /\ locations # UniqueSorted_unsorted(companies, "location")
  /\ \E i \in 1..Len(companies) :
       companies[i].location # locationFilter

-----------------------------------------------------------------------------
(* Claims about the snapshot and its timestamp *)

\* C12 as stated: a lookup by id that fetches because the cache was never
\* populated stores its snapshot with a timestamp, so that a list read
\* arriving while the cache holds a snapshot and less than CACHE_DURATION has
\* passed since the process started (hence since any fetch) is answered with
\* the stored records and source "cache", without an external call.
C12_GetByIdRefreshes ==
  [][\A r \in Requests :
       /\ (Completes(r, "byId") /\ ~cachedCompanies.some)
            => (cachedCompanies'.some /\ lastFetchTime'.some)
       /\ ( /\ Arrives(r, "list")
            /\ cachedCompanies.some
            /\ now - StartTime < CACHE_DURATION )
            => /\ req'[r].pc = "done"
               /\ req'[r].calls = 0
               /\ req'[r].res.source = "cache"
               /\ req'[r].res.data = cachedCompanies.val]_vars

\* C13 as stated: a list read or a refresh that stores a fetched snapshot
\* stores with it the time at which the fetch came back.
C13_StampIsCompletion ==
  [][\A r \in Requests :
       (Completes(r, "list") \/ Completes(r, "refresh"))
       => lastFetchTime' = Some(now)]_vars

\* C14 as stated: every fetch that comes back, whichever route started it,
\* writes the record list and its timestamp together: after the step a list
\* is stored and the stored time is one this request took (at its arrival or
\* now, as its fetch comes back).
C14_WrittenTogether ==
  [][\A r \in Requests : \A kind \in {"list", "byId", "refresh"} :
       Completes(r, kind)
       => /\ cachedCompanies'.some
          /\ lastFetchTime'.some
          /\ lastFetchTime'.val \in {req[r].currentTime, now}]_vars

\* C15 as stated: once a time is stored, no step stores an earlier one or
\* clears it.
C15_StampMonotone ==
  [][lastFetchTime.some
       => (lastFetchTime'.some /\ lastFetchTime'.val >= lastFetchTime.val)]_vars

====
